---- MODULE Spec2Model ----
(***************************************************************************)
(* Model of src/fetch_and_upsert_by_topic.py: the ingestion pipeline that  *)
(* walks a truncated list of feed entries, resolves each link through a    *)
(* headless browser, extracts the article, applies the 500 character       *)
(* quality gate, builds the record and upserts it into the "news" table,   *)
(* stopping after the first successful upsert.                             *)
(*                                                                         *)
(* Python's None is the string None for string valued data and the record  *)
(* NoneRec for tuple / dict valued data.  An optional integer is a         *)
(* sequence of length at most one.                                         *)
(***************************************************************************)
EXTENDS Integers, Sequences, FiniteSets, Bags, TLC

VARIABLES
    entries,        \* list returned by extract_values_from_json_file (the feed)
    limit,          \* --limit
    cfg,            \* [url, key]: is the store URL / key given (flag or env)
    store,          \* bag of the rows of table 'news', a row being its news_url
    pc,             \* position of the process
    idx,            \* number of entries of the truncated list taken so far
    processed,      \* processed (fetch_and_upsert_by_topic)
    link,           \* entry.get('link') of the current entry
    source_href,    \* entry.get('source_href') of the current entry
    source_title,   \* entry.get('source_title') of the current entry
    resolveRes,     \* what get_final_url_with_selenium returned for the entry
    final_url,      \* final_url of get_full_article
    gate,           \* calls of count_characters_and_check for the entry
    details,        \* details (result of get_full_article)
    record,         \* record handed to upsert_article_record
    outcome,        \* branch upsert_article_record took for the entry
    sessions,       \* browser sessions started and not quit
    visited,        \* entries the loop has taken, in the order taken
    resolveCalls,   \* indices get_final_url_with_selenium was called for
    extractCalls,   \* indices Article(url=final_url) was downloaded for
    upsertLog,      \* <<index, returned bool>> of every upsert_article_record
    returned,       \* <<count>> once fetch_and_upsert_by_topic has returned
    exitStatus,     \* <<status>> once the process has ended
    crashed,        \* an exception left main as a traceback
    phases,         \* work begun after the configuration check
    nlp             \* how the summary step of the entry ended

vars == <<entries, limit, cfg, store, pc, idx, processed, link, source_href,
          source_title, resolveRes, final_url, gate, details, record, outcome,
          sessions, visited, resolveCalls, extractCalls, upsertLog, returned,
          exitStatus, crashed, phases, nlp>>

-----------------------------------------------------------------------------
(* Bounds and value domains *)

MaxEntries == 2

QualityThreshold == 500

None == "None"

NoneRec == [none |-> TRUE]

Max(a, b) == IF a >= b THEN a ELSE b

Min(a, b) == IF a <= b THEN a ELSE b

RECURSIVE Rep(_)
Rep(n) ==
    IF n = 0 THEN ""
    ELSE LET h == Rep(n \div 2)
         IN  IF n % 2 = 0 THEN h \o h ELSE (h \o h) \o "x"

\* feed entries: with a link and no source, an empty source href or a source
\* href, and without a link (link absent or empty)
EntryPool ==
    { [link |-> "g1",  source_href |-> None,    source_title |-> None],
      [link |-> "g1",  source_href |-> "",      source_title |-> "Src"],
      [link |-> "g2",  source_href |-> "s.com", source_title |-> "Src"],
      [link |-> None,  source_href |-> "s.com", source_title |-> "Src"],
      [link |-> "",    source_href |-> None,    source_title |-> None] }

Feeds == UNION { [1..n -> EntryPool] : n \in 0..MaxEntries }

Limits == (0 - 1)..MaxEntries

HtmlLens == {QualityThreshold, QualityThreshold + 1}

Htmls == {None} \cup { Rep(n) : n \in HtmlLens }

RawDates == {None, "2024-05-01 10:00", "not a date"}

TopicId == "CAAqIggKIhxDQkFTRHdvSkwyMHZNRFF5Y214bUVnSmhjaWdBUAE"

-----------------------------------------------------------------------------
(* Pure functions of the program *)

\* Python's seq[:n]
PySliceTo(s, n) ==
    IF n >= 0 THEN SubSeq(s, 1, Min(n, Len(s)))
    ELSE SubSeq(s, 1, Max(0, Len(s) + n))

Truncate_NoClamp(es, lim) == PySliceTo(es, lim)

\* entries[:max(0, limit)]
Truncate(es, lim) == PySliceTo(es, Max(0, lim))

Truncated == Truncate(entries, limit)

LinkMissing_OnlyNone(l) == l = None

\* `if not link`
LinkMissing(l) == l = None \/ l = ""

count_characters_and_check_Ge(string) ==
    IF string = None THEN FALSE ELSE Len(string) >= QualityThreshold

count_characters_and_check(string) ==
    IF string = None THEN FALSE ELSE Len(string) > QualityThreshold

FallbackUrl_None(res, newsurl) == res

FallbackUrl_Original(res, newsurl) == newsurl

\* get_final_url_with_selenium(newsurl) or newsurl
FallbackUrl(res, newsurl) ==
    IF res # None /\ res # "" THEN res ELSE newsurl

NowIso == "2026-10-29T12:00:00"

\* stands for an exception leaving a function in place of its return value
Raised == "<raised>"

\* can dateutil parse str(given_date)
Parseable(given_date) == given_date = "2024-05-01 10:00"

convert_date_to_iso8601_NoExcept(given_date) ==
    IF given_date = None THEN NowIso
    ELSE IF Parseable(given_date) THEN "2024-05-01T10:00:00"
    ELSE Raised

\* dateutil's parse of the raw dates of the model, as isoformat()
convert_date_to_iso8601(given_date) ==
    IF given_date = None THEN NowIso
    ELSE IF Parseable(given_date) THEN "2024-05-01T10:00:00"
    ELSE NowIso

SourceLogo_NotNone(href) ==
    IF href # None THEN "https://logo.clearbit.com/" \o href ELSE None

\* f"https://logo.clearbit.com/{source_href}" if source_href else None
SourceLogo(href) ==
    IF href # None /\ href # "" THEN "https://logo.clearbit.com/" \o href
    ELSE None

-----------------------------------------------------------------------------
(* The collaborators' answers (environment) and the adapters around them *)

\* address the browser ends on after the redirects of url
FinalOf(url) == "https://news.example/" \o url

\* what the browser does: the driver does not start, the driver starts and
\* get() / current_url raises, or the address is read and the driver quit
ResolverAnswers == {"startup_fail", "nav_fail", "ok"}

\* return value of get_final_url_with_selenium and the sessions it leaves open
get_final_url_with_selenium_StartupRaises(answer, url) ==
    CASE answer = "startup_fail" ->
            [ret |-> None, left_open |-> 0, raised |-> TRUE]
      [] answer = "nav_fail" ->
            [ret |-> None, left_open |-> 1, raised |-> FALSE]
      [] OTHER ->
            [ret |-> FinalOf(url), left_open |-> 0, raised |-> FALSE]

get_final_url_with_selenium(answer, url) ==
    CASE answer = "startup_fail" ->
            [ret |-> None, left_open |-> 0, raised |-> FALSE]
      [] answer = "nav_fail" ->
            [ret |-> None, left_open |-> 1, raised |-> FALSE]
      [] OTHER ->
            [ret |-> FinalOf(url), left_open |-> 0, raised |-> FALSE]

\* what download() / parse() / the tokenizer / nlp() do for a page
Pages ==
    { [fail |-> TRUE] } \cup
    [ fail : {FALSE}, html : Htmls, date : RawDates,
      punkt : {"present", "downloaded", "unavailable"}, nlp_ok : BOOLEAN ]

\* ensure_nltk_punkt()
ensure_nltk_punkt(punkt) == punkt # "unavailable"

\* news_summary of get_full_article
Summary(page) ==
    IF ensure_nltk_punkt(page.punkt) /\ page.nlp_ok THEN "summary" ELSE None

\* how the summary step ends: the tokenizer cannot be provisioned, nlp()
\* raises, or the summary is generated
NlpOutcome(page) ==
    IF ~ensure_nltk_punkt(page.punkt) THEN "no_tokenizer"
    ELSE IF page.nlp_ok THEN "ok" ELSE "nlp_failed"

ArticleTuple(url, page) ==
    [ news_title       |-> "Title of " \o url,
      news_articlehtml |-> page.html,
      news_articletext |-> "text",
      news_topimg      |-> "img",
      news_date        |-> page.date,
      news_url         |-> url,
      news_summary     |-> Summary(page) ]

get_full_article_NoGate(url, page) ==
    IF page.fail THEN NoneRec ELSE ArticleTuple(url, page)

get_full_article_NlpFatal(url, page) ==
    IF page.fail THEN NoneRec
    ELSE IF NlpOutcome(page) # "ok" THEN NoneRec
    ELSE IF count_characters_and_check(page.html) THEN ArticleTuple(url, page)
    ELSE NoneRec

get_full_article_FailTuple(url, page) ==
    IF page.fail
    THEN ArticleTuple(url, [fail |-> TRUE, html |-> "", date |-> None,
                            punkt |-> "unavailable", nlp_ok |-> FALSE])
    ELSE IF count_characters_and_check(page.html) THEN ArticleTuple(url, page)
    ELSE NoneRec

\* the try block of get_full_article, from Article(url=final_url) on
get_full_article(url, page) ==
    IF page.fail THEN NoneRec
    ELSE IF count_characters_and_check(page.html) THEN ArticleTuple(url, page)
    ELSE NoneRec

BuildRecord_FirstSource(d, href, title) ==
    [ news_title        |-> d.news_title,
      news_articlehtml  |-> d.news_articlehtml,
      news_articletext  |-> d.news_articletext,
      news_topimg       |-> d.news_topimg,
      news_date         |-> convert_date_to_iso8601(d.news_date),
      news_url          |-> d.news_url,
      news_summary      |-> d.news_summary,
      news_topicid      |-> TopicId,
      news_source_href  |-> visited[1].source_href,
      news_source_title |-> visited[1].source_title,
      news_source_logo  |-> SourceLogo(visited[1].source_href) ]

\* the record dict of fetch_and_upsert_by_topic
BuildRecord(d, href, title) ==
    [ news_title        |-> d.news_title,
      news_articlehtml  |-> d.news_articlehtml,
      news_articletext  |-> d.news_articletext,
      news_topimg       |-> d.news_topimg,
      news_date         |-> convert_date_to_iso8601(d.news_date),
      news_url          |-> d.news_url,
      news_summary      |-> d.news_summary,
      news_topicid      |-> TopicId,
      news_source_href  |-> href,
      news_source_title |-> title,
      news_source_logo  |-> SourceLogo(href) ]

\* the natural key the table's uniqueness constraint is on
KeyOf(rec) == rec.news_url

StoreHas(key) == BagIn(key, store)

\* answers of client.table('news').upsert(data).execute(): the row is
\* inserted, the uniqueness constraint is violated (as a payload with code
\* 23505 and the duplicate key message, with the code and a localized
\* message, or as a non-dict payload with the message), the store rejects
\* the request with another API error, or the call fails outside the API
StoreAnswers(key) ==
    ( IF StoreHas(key)
      THEN { [kind |-> "APIError", cause |-> "conflict", dict |-> TRUE,
              code |-> "23505", dupmsg |-> TRUE],
             [kind |-> "APIError", cause |-> "conflict", dict |-> TRUE,
              code |-> "23505", dupmsg |-> FALSE],
             [kind |-> "APIError", cause |-> "conflict", dict |-> FALSE,
              code |-> "23505", dupmsg |-> TRUE] }
      ELSE { [kind |-> "ok", cause |-> "inserted", dict |-> TRUE,
              code |-> None, dupmsg |-> FALSE] } )
    \cup
    { [kind |-> "APIError", cause |-> "rejected", dict |-> TRUE,
       code |-> "42501", dupmsg |-> FALSE],
      [kind |-> "Exception", cause |-> "unreachable", dict |-> FALSE,
       code |-> None, dupmsg |-> FALSE] }

\* code = payload.get('code') if isinstance(payload, dict) else None
PayloadCode(ans) == IF ans.dict THEN ans.code ELSE None

IsDuplicate_MessageOnly(code, dupmsg) == dupmsg

\* code == '23505' or 'duplicate key value' in str(e)
IsDuplicate(code, dupmsg) == code = "23505" \/ dupmsg

upsert_article_record_ApiOnly(ans) ==
    CASE ans.kind = "ok" ->
            [ret |-> TRUE, log |-> "Success", raised |-> FALSE]
      [] ans.kind = "APIError" ->
            [ret |-> FALSE,
             log |-> IF IsDuplicate(PayloadCode(ans), ans.dupmsg)
                     THEN "DuplicateConflict" ELSE "OtherFailure",
             raised |-> FALSE]
      [] OTHER ->
            [ret |-> FALSE, log |-> "Raised", raised |-> TRUE]

\* upsert_article_record: what it returns, the branch it logs, and whether
\* an exception leaves it
upsert_article_record(ans) ==
    CASE ans.kind = "ok" ->
            [ret |-> TRUE, log |-> "Success", raised |-> FALSE]
      [] ans.kind = "APIError" ->
            [ret |-> FALSE,
             log |-> IF IsDuplicate(PayloadCode(ans), ans.dupmsg)
                     THEN "DuplicateConflict" ELSE "OtherFailure",
             raised |-> FALSE]
      [] OTHER ->
            [ret |-> FALSE, log |-> "OtherFailure", raised |-> FALSE]

AfterUpsert_NoBreak(ok) == "loop"

\* `if upsert_article_record(...): processed += 1; break`
AfterUpsert(ok) == IF ok THEN "return" ELSE "loop"

CountAfter_Always(ok, n) == n + 1

\* `processed += 1` under `if upsert_article_record(client, record)`
CountAfter(ok, n) == IF ok THEN n + 1 ELSE n

AfterExtract_Retry(d) == IF d = NoneRec THEN "resolve" ELSE "build"

\* `if not details: continue`
AfterExtract(d) == IF d = NoneRec THEN "loop" ELSE "build"

ConfigMissing_UrlOnly(c) == ~c.url

\* `missing` of main is not empty (the topic id always has its default)
ConfigMissing(c) == ~c.url \/ ~c.key

ExitStatusOf_AlwaysZero(count) == 0

\* `if count == 0: raise SystemExit(1)`
ExitStatusOf(count) == IF count = 0 THEN 1 ELSE 0

NoGate == <<>>

NoOutcome == [store |-> "none", log |-> "none"]

-----------------------------------------------------------------------------
(* The process *)

Init ==
    /\ entries \in Feeds
    /\ limit \in Limits
    /\ cfg \in [url : BOOLEAN, key : BOOLEAN]
    /\ store = EmptyBag
    /\ pc = "main"
    /\ idx = 0
    /\ processed = 0
    /\ link = None
    /\ source_href = None
    /\ source_title = None
    /\ resolveRes = None
    /\ final_url = None
    /\ gate = NoGate
    /\ details = NoneRec
    /\ record = NoneRec
    /\ outcome = NoOutcome
    /\ sessions = 0
    /\ visited = <<>>
    /\ resolveCalls = <<>>
    /\ extractCalls = <<>>
    /\ upsertLog = <<>>
    /\ returned = <<>>
    /\ exitStatus = <<>>
    /\ crashed = FALSE
    /\ phases = {}
    /\ nlp = "none"

\* what is gone when the loop takes an entry: the frame of the previous
\* call of get_full_article (its resolved and final address) and what was
\* observed of the previous entry's gate, summary step and store answer; the
\* locals details and record of fetch_and_upsert_by_topic stay bound to the
\* previous entry's values until lines 217 and 234 assign them again
ClearEntryLocals ==
    /\ resolveRes' = None
    /\ final_url' = None
    /\ gate' = NoGate
    /\ outcome' = NoOutcome
    /\ nlp' = "none"

\* an exception nothing catches leaves main: traceback, status 1
Crash ==
    /\ pc' = "exited"
    /\ exitStatus' = <<1>>
    /\ crashed' = TRUE

\* main up to the call of fetch_and_upsert_by_topic: a missing store URL or
\* key ends the process with SystemExit(message)
Main ==
    /\ pc = "main"
    /\ IF ConfigMissing(cfg)
       THEN /\ pc' = "exited"
            /\ exitStatus' = <<1>>
       ELSE /\ pc' = "fetch"
            /\ exitStatus' = exitStatus
    /\ UNCHANGED <<entries, limit, cfg, store, idx, processed, link,
                   source_href, source_title, resolveRes, final_url, gate,
                   details, record, outcome, sessions, visited, resolveCalls,
                   extractCalls, upsertLog, returned, crashed, phases, nlp>>

\* headline fetch, entry extraction, client creation, processed = 0; the
\* fetch or the file access may raise, which nothing catches
Fetch ==
    /\ pc = "fetch"
    /\ \E ok \in BOOLEAN :
         IF ok
         THEN /\ pc' = "loop"
              /\ phases' = {"headlines", "client"}
              /\ UNCHANGED <<exitStatus, crashed>>
         ELSE /\ Crash
              /\ phases' = {"headlines"}
    /\ idx' = 0
    /\ processed' = 0
    /\ UNCHANGED <<entries, limit, cfg, store, link, source_href, source_title,
                   resolveRes, final_url, gate, details, record, outcome,
                   sessions, visited, resolveCalls, extractCalls, upsertLog,
                   returned, nlp>>

\* the for statement takes the next entry of entries[:max(0, limit)], reads
\* its fields and skips it when it has no link
NextEntry ==
    /\ pc = "loop"
    /\ idx < Len(Truncated)
    /\ LET entry == Truncated[idx + 1] IN
         /\ idx' = idx + 1
         /\ visited' = Append(visited, entry)
         /\ link' = entry.link
         /\ source_href' = entry.source_href
         /\ source_title' = entry.source_title
         /\ pc' = IF LinkMissing(entry.link) THEN "loop" ELSE "resolve"
    /\ ClearEntryLocals
    /\ UNCHANGED <<entries, limit, cfg, store, processed, details, record,
                   sessions, resolveCalls, extractCalls, upsertLog, returned,
                   exitStatus, crashed, phases>>

\* the for statement finds the truncated list exhausted
LoopExit ==
    /\ pc = "loop"
    /\ idx >= Len(Truncated)
    /\ pc' = "return"
    /\ UNCHANGED <<entries, limit, cfg, store, idx, processed, link,
                   source_href, source_title, resolveRes, final_url, gate,
                   details, record, outcome, sessions, visited, resolveCalls,
                   extractCalls, upsertLog, returned, exitStatus, crashed,
                   phases, nlp>>

\* get_full_article, first statement: resolve the link, fall back to it
Resolve ==
    /\ pc = "resolve"
    /\ \E answer \in ResolverAnswers :
         LET r == get_final_url_with_selenium(answer, link) IN
           /\ resolveRes' = r.ret
           /\ sessions' = sessions + r.left_open
           /\ final_url' = FallbackUrl(r.ret, link)
           /\ IF r.raised
              THEN Crash
              ELSE /\ pc' = "extract"
                   /\ UNCHANGED <<exitStatus, crashed>>
    /\ resolveCalls' = Append(resolveCalls, idx)
    /\ UNCHANGED <<entries, limit, cfg, store, idx, processed, link,
                   source_href, source_title, gate, details, record, outcome,
                   visited, extractCalls, upsertLog, returned, phases, nlp>>

\* get_full_article, the try block, and the `if not details` of the loop
Extract ==
    /\ pc = "extract"
    /\ \E page \in Pages :
         /\ details' = get_full_article(final_url, page)
         /\ gate' = IF page.fail THEN NoGate
                    ELSE <<[html |-> page.html,
                            passed |-> count_characters_and_check(page.html)]>>
         /\ nlp' = IF page.fail THEN "none" ELSE NlpOutcome(page)
    /\ extractCalls' = Append(extractCalls, idx)
    /\ pc' = AfterExtract(details')
    /\ UNCHANGED <<entries, limit, cfg, store, idx, processed, link,
                   source_href, source_title, resolveRes, final_url, record,
                   outcome, sessions, visited, resolveCalls, upsertLog,
                   returned, exitStatus, crashed, phases>>

\* convert_date_to_iso8601 and the record dict
Build ==
    /\ pc = "build"
    /\ IF convert_date_to_iso8601(details.news_date) = Raised
       THEN /\ Crash
            /\ record' = record
       ELSE /\ record' = BuildRecord(details, source_href, source_title)
            /\ pc' = "persist"
            /\ UNCHANGED <<exitStatus, crashed>>
    /\ UNCHANGED <<entries, limit, cfg, store, idx, processed, link,
                   source_href, source_title, resolveRes, final_url, gate,
                   details, outcome, sessions, visited, resolveCalls,
                   extractCalls, upsertLog, returned, phases, nlp>>

\* upsert_article_record(client, record) and the `if` around it
Persist ==
    /\ pc = "persist"
    /\ \E ans \in StoreAnswers(KeyOf(record)) :
         LET r == upsert_article_record(ans) IN
           /\ store' = IF ans.kind = "ok"
                       THEN store (+) SetToBag({KeyOf(record)})
                       ELSE store
           /\ outcome' = [store |-> ans.cause, log |-> r.log]
           /\ IF r.raised
              THEN /\ Crash
                   /\ UNCHANGED <<processed, upsertLog>>
              ELSE /\ pc' = AfterUpsert(r.ret)
                   /\ processed' = CountAfter(r.ret, processed)
                   /\ upsertLog' = Append(upsertLog, <<idx, r.ret>>)
                   /\ UNCHANGED <<exitStatus, crashed>>
    /\ UNCHANGED <<entries, limit, cfg, idx, link, source_href, source_title,
                   resolveRes, final_url, gate, details, record, sessions,
                   visited, resolveCalls, extractCalls, returned, phases, nlp>>

\* `return processed`, then main's `if count == 0: raise SystemExit(1)`
Return ==
    /\ pc = "return"
    /\ returned' = <<processed>>
    /\ exitStatus' = <<ExitStatusOf(processed)>>
    /\ pc' = "exited"
    /\ UNCHANGED <<entries, limit, cfg, store, idx, processed, link,
                   source_href, source_title, resolveRes, final_url, gate,
                   details, record, outcome, sessions, visited, resolveCalls,
                   extractCalls, upsertLog, crashed, phases, nlp>>

\* the script is started again (a later scheduled run) over the same feed,
\* against the same store
Restart ==
    /\ pc = "exited"
    /\ pc' = "main"
    /\ idx' = 0
    /\ processed' = 0
    /\ link' = None
    /\ source_href' = None
    /\ source_title' = None
    /\ ClearEntryLocals
    /\ details' = NoneRec
    /\ record' = NoneRec
    /\ sessions' = 0
    /\ visited' = <<>>
    /\ resolveCalls' = <<>>
    /\ extractCalls' = <<>>
    /\ upsertLog' = <<>>
    /\ returned' = <<>>
    /\ exitStatus' = <<>>
    /\ crashed' = FALSE
    /\ phases' = {}
    /\ UNCHANGED <<entries, limit, cfg, store>>

\* one run of the script
NextRun ==
    \/ Main
    \/ Fetch
    \/ NextEntry
    \/ LoopExit
    \/ Resolve
    \/ Extract
    \/ Build
    \/ Persist
    \/ Return

Next ==
    \/ Main
    \/ Fetch
    \/ NextEntry
    \/ LoopExit
    \/ Resolve
    \/ Extract
    \/ Build
    \/ Persist
    \/ Return
    \/ Restart

Spec == Init /\ [][Next]_vars

\* one run, in which the single thread takes its next step whenever it has
\* one (every call of a collaborator returns or raises)
LiveSpec == Init /\ [][NextRun]_vars /\ WF_vars(NextRun)

-----------------------------------------------------------------------------
(* Properties *)

InSeq(x, s) == \E i \in 1..Len(s) : s[i] = x

\* indices upsert_article_record returned for
UpsertedIdx == { upsertLog[k][1] : k \in 1..Len(upsertLog) }

\* every index a stage was invoked for
TouchedByStages ==
    { resolveCalls[j] : j \in 1..Len(resolveCalls) }
    \cup { extractCalls[j] : j \in 1..Len(extractCalls) }
    \cup UpsertedIdx

\* get_full_article was called for the current entry and returned a tuple:
\* details is this entry's document, not one left from an earlier iteration
DetailsReturned == InSeq(idx, extractCalls) /\ details # NoneRec

\* line 234 has assigned record in the current iteration
RecordBuilt == pc = "persist" \/ idx \in UpsertedIdx

\* C1 (early stop): once the upsert of the K-th entry returns true it is the
\* only successful and the last upsert, processed is 1, the loop is left with
\* K entries taken, no stage was invoked for an entry after K, and the count
\* returned is 1.
C1_EarlyStop ==
    \A k \in 1..Len(upsertLog) :
        upsertLog[k][2] =>
            LET K == upsertLog[k][1] IN
              /\ k = Len(upsertLog)
              /\ \A j \in 1..(k - 1) : ~upsertLog[j][2]
              /\ processed = 1
              /\ idx = K
              /\ Len(visited) = K
              /\ \A i \in TouchedByStages : i <= K
              /\ pc \in {"return", "exited"}
              /\ (returned # <<>> => returned = <<1>>)

\* the run has ended after a success at an entry that is followed, in the
\* truncated list, by an entry with a link
C1_Witness ==
    /\ pc = "exited"
    /\ returned = <<1>>
    /\ \E k \in 1..Len(upsertLog) :
         /\ upsertLog[k][2]
         /\ upsertLog[k][1] < Len(Truncate(entries, limit))
         /\ entries[upsertLog[k][1] + 1].link \notin {None, ""}

\* C2 (run result and exit status): the count returned is 0 exactly when no
\* upsert of the run returned true, and once the process has ended after the
\* return its status is non-zero if and only if that count is 0; with a
\* positive count the process ends with status 0 and without a traceback.
C2_RunResult ==
    returned # <<>> =>
        /\ (returned[1] = 0 <=> ~\E k \in 1..Len(upsertLog) : upsertLog[k][2])
        /\ pc = "exited"
        /\ exitStatus # <<>>
        /\ (exitStatus[1] # 0 <=> returned[1] = 0)
        /\ (returned[1] > 0 => exitStatus = <<0>> /\ ~crashed)

\* entries = [empty link, link whose extraction fails]: count 0, status 1
C2_Witness ==
    /\ pc = "exited"
    /\ Len(visited) = 2
    /\ visited[1].link = ""
    /\ visited[2].link = "g1"
    /\ extractCalls = <<2>>
    /\ details = NoneRec
    /\ upsertLog = <<>>
    /\ returned = <<0>>
    /\ exitStatus = <<1>>

\* C3 (truncation and order): the entries the loop has taken are the first
\* entries of the feed, in feed order, at most max(0, limit) of them; every
\* stage invocation is for one of them; with limit <= 0 nothing is taken, no
\* stage is invoked and the count is 0.
C3_TruncationOrder ==
    /\ Len(visited) <= Max(0, limit)
    /\ Len(visited) <= Len(entries)
    /\ idx = Len(visited)
    /\ \A i \in 1..Len(visited) : visited[i] = entries[i]
    /\ \A i \in TouchedByStages : i \in 1..Len(visited)
    /\ limit <= 0 =>
         /\ visited = <<>>
         /\ TouchedByStages = {}
         /\ processed = 0
         /\ (returned # <<>> => returned = <<0>>)

\* a run with a negative limit over a feed of entries with links has ended
C3_Witness ==
    /\ limit < 0
    /\ Len(entries) >= 2
    /\ \A i \in 1..Len(entries) : entries[i].link \notin {None, ""}
    /\ pc = "exited"
    /\ returned = <<0>>
    /\ visited = <<>>

\* C4 (empty-link skip): the step that takes an entry whose link is absent or
\* empty leaves the resolver, extractor and store uninvoked and the store,
\* the sessions and processed unchanged, and leaves the loop ready for the
\* next entry; no stage is ever invoked for such an entry.
C4_EmptyLinkSkip ==
    [][ /\ ( /\ pc = "loop"
             /\ idx' = idx + 1
             /\ idx' <= Len(entries)
             /\ entries[idx'].link \in {None, ""} )
           => /\ pc' = "loop"
              /\ processed' = processed
              /\ UNCHANGED <<resolveCalls, extractCalls, upsertLog, store,
                             sessions>>
        /\ \A i \in TouchedByStages' : entries[i].link \notin {None, ""}
      ]_vars

\* the entry after a skipped first entry is being resolved
C4_Witness ==
    /\ Len(visited) = 2
    /\ visited[1].link \in {None, ""}
    /\ pc = "resolve"
    /\ TouchedByStages = {}
    /\ processed = 0

\* C5 (resolution fallback): when the resolver returned None for the current
\* entry, the address extraction uses is the entry's original link, and
\* extraction is pending or has been attempted for it.
C5_ResolutionFallback ==
    (InSeq(idx, resolveCalls) /\ resolveRes = None) =>
        /\ link \notin {None, ""}
        /\ final_url = link
        /\ pc = "extract" \/ InSeq(idx, extractCalls)

\* extraction succeeded against the original link after a failed resolution
C5_Witness ==
    /\ InSeq(idx, resolveCalls)
    /\ resolveRes = None
    /\ InSeq(idx, extractCalls)
    /\ details # NoneRec
    /\ details.news_url = link

\* C6 (quality gate): every call of count_characters_and_check returned true
\* if and only if its argument is a string longer than 500 characters; for
\* None it returned false.
C6_QualityGate ==
    \A g \in 1..Len(gate) :
        gate[g].passed <=>
            (IF gate[g].html = None THEN FALSE ELSE Len(gate[g].html) > 500)

\* an HTML of 501 characters passed
C6_Witness ==
    /\ gate # <<>>
    /\ gate[1].html # None
    /\ Len(gate[1].html) = 501
    /\ gate[1].passed

\* C7 (gate before build): whenever a record is being built, has been built
\* or has been handed to the store, extraction returned a document for the
\* entry and its HTML, which is the record's HTML, is longer than 500
\* characters and passed the gate; every upsert is for an extracted entry.
C7_GateBeforeBuild ==
    /\ (pc = "build" \/ RecordBuilt)
         => /\ DetailsReturned
            /\ details.news_articlehtml # None
            /\ Len(details.news_articlehtml) > 500
            /\ gate # <<>>
            /\ gate[1].passed
            /\ gate[1].html = details.news_articlehtml
    /\ RecordBuilt
         => /\ record # NoneRec
            /\ record.news_articlehtml = details.news_articlehtml
    /\ \A i \in UpsertedIdx : InSeq(i, extractCalls)

\* a record with an HTML of 501 characters was handed to the store
C7_Witness ==
    /\ record # NoneRec
    /\ idx \in UpsertedIdx
    /\ Len(record.news_articlehtml) = 501

PersistFailures == {"conflict", "rejected", "unreachable"}

\* C8 (persistence failures): after the store answered the upsert of the
\* current entry with a uniqueness conflict or any other error, no exception
\* has left upsert_article_record, the call returned false, processed is
\* unchanged (0), and the loop goes on: it is at its head, or has left only
\* because the truncated list is exhausted; this is so for a conflict and for
\* any other failure alike.
C8_PersistFailureNonFatal ==
    outcome.store \in PersistFailures =>
        /\ ~crashed
        /\ outcome.log \in {"DuplicateConflict", "OtherFailure"}
        /\ upsertLog # <<>>
        /\ upsertLog[Len(upsertLog)] = <<idx, FALSE>>
        /\ processed = 0
        /\ pc \in {"loop", "return", "exited"}
        /\ (pc # "loop" => idx = Len(Truncate(entries, limit)))
        /\ (pc = "exited" => returned = <<0>>)

\* the store was unreachable for an entry and the loop is about to take the
\* next one
C8_Witness ==
    /\ outcome.store = "unreachable"
    /\ pc = "loop"
    /\ idx < Len(Truncate(entries, limit))
    /\ ~crashed

\* C9 (idempotent persistence): when the store answers an upsert by its
\* uniqueness constraint, a record whose key is not stored is a Success and
\* is stored, a record whose key is stored is a DuplicateConflict that
\* returns false and leaves the store as it is, and either way the store
\* holds the record's key exactly once afterwards.
C9_IdempotentPersist ==
    [][ ( /\ pc = "persist"
          /\ pc' # "persist"
          /\ outcome'.store \in {"inserted", "conflict"} )
        => /\ IF BagIn(KeyOf(record), store)
              THEN /\ outcome'.log = "DuplicateConflict"
                   /\ upsertLog' = Append(upsertLog, <<idx, FALSE>>)
                   /\ store' = store
              ELSE /\ outcome'.log = "Success"
                   /\ upsertLog' = Append(upsertLog, <<idx, TRUE>>)
           /\ CopiesIn(KeyOf(record), store') = 1
      ]_vars

\* a record stored by an earlier run was refused as a duplicate
C9_Witness ==
    /\ outcome.log = "DuplicateConflict"
    /\ outcome.store = "conflict"
    /\ record # NoneRec
    /\ CopiesIn(KeyOf(record), store) = 1

\* C10 as stated (source logo): the record's source_logo is present if and
\* only if its source_href is present (not None), the empty string included,
\* and is then https://logo.clearbit.com/ followed by the source_href.
C10_Original ==
    RecordBuilt =>
        /\ record # NoneRec
        /\ record.news_source_href = visited[idx].source_href
        /\ (record.news_source_logo # None <=> record.news_source_href # None)
        /\ (record.news_source_logo # None =>
              record.news_source_logo =
                  "https://logo.clearbit.com/" \o visited[idx].source_href)

\* C10 amended: the record's source_logo is present if and only if the
\* entry's source_href is present and not empty, and is then
\* https://logo.clearbit.com/ followed by that entry's source_href; for an
\* empty source_href the record keeps the empty source_href and has no logo.
C10_SourceLogo ==
    RecordBuilt =>
        /\ record # NoneRec
        /\ record.news_source_href = visited[idx].source_href
        /\ (record.news_source_logo # None
              <=> record.news_source_href \notin {None, ""})
        /\ (record.news_source_logo # None =>
              record.news_source_logo =
                  "https://logo.clearbit.com/" \o visited[idx].source_href)

\* a record with an empty source_href and no logo was handed to the store
C10_Witness ==
    /\ record # NoneRec
    /\ idx \in UpsertedIdx
    /\ record.news_source_href = ""
    /\ record.news_source_logo = None

\* C11 (date normalization never aborts ingestion): every document that
\* extraction returned and that is past the build step has a record, whatever
\* its raw publish date; the record's news_date is a timestamp, never None,
\* it is the current time when the raw date is absent or does not parse and
\* the parsed date otherwise; no exception left the build step.
C11_DateNeverAborts ==
    /\ (DetailsReturned /\ pc # "build") =>
         /\ RecordBuilt
         /\ record # NoneRec
         /\ record.news_date \notin {None, Raised, ""}
         /\ (details.news_date \in {None, "not a date"}
               => record.news_date = NowIso)
         /\ (details.news_date = "2024-05-01 10:00"
               => record.news_date = "2024-05-01T10:00:00")
    /\ crashed => visited = <<>>

\* a record whose raw date did not parse was handed to the store with the
\* current time as its date
C11_Witness ==
    /\ details # NoneRec
    /\ details.news_date = "not a date"
    /\ record # NoneRec
    /\ record.news_date = NowIso
    /\ idx \in UpsertedIdx

\* C12 (unconditional session teardown): every browser session that
\* get_final_url_with_selenium started has been quit when the call has
\* returned, so no session is open in any state between two calls.
C12_SessionTeardown == sessions = 0

ConfigGiven == cfg.url /\ cfg.key

\* C13 as stated (configuration failure): with the store URL or key missing
\* the process ends with an error before the headline fetch, the client
\* creation and any entry; and a run that ends without returning a count
\* ended so only because of missing configuration.
C13_Original ==
    /\ ~ConfigGiven =>
         /\ phases = {}
         /\ visited = <<>>
         /\ TouchedByStages = {}
         /\ pc \in {"main", "exited"}
         /\ (pc = "exited" => exitStatus = <<1>> /\ returned = <<>>)
    /\ (pc = "exited" /\ returned = <<>>) => ~ConfigGiven

\* C13 amended: with the store URL or key missing the process ends with an
\* error before the headline fetch, the client creation and any entry; with
\* the configuration given, a run ends without returning a count only when
\* the headline fetch or client creation raised, before any entry was taken:
\* no failure of a stage of an entry ends the run.
C13_ConfigFatal ==
    /\ ~ConfigGiven =>
         /\ phases = {}
         /\ visited = <<>>
         /\ TouchedByStages = {}
         /\ pc \in {"main", "exited"}
         /\ (pc = "exited" => exitStatus = <<1>> /\ returned = <<>>)
    /\ (pc = "exited" /\ returned = <<>> /\ ConfigGiven) =>
         /\ crashed
         /\ phases = {"headlines"}
         /\ visited = <<>>
         /\ TouchedByStages = {}

\* the process has ended on a missing store key, the store URL being given
C13_Witness ==
    /\ cfg.url
    /\ ~cfg.key
    /\ pc = "exited"
    /\ exitStatus = <<1>>
    /\ phases = {}
    /\ Len(entries) > 0
    /\ limit > 0

NoRepeat(s) == \A i, j \in 1..Len(s) : s[i] = s[j] => i = j

UpsertIdxSeq == [k \in 1..Len(upsertLog) |-> upsertLog[k][1]]

\* C14 (per-entry state machine): no entry is resolved, extracted or
\* persisted more than once; an entry is extracted only after its resolution
\* and persisted only after its extraction; the current entry is at exactly
\* the stage its position says (pending before the resolver call, resolved
\* before the download, extracted before the build, built before the upsert)
\* and an entry without a link or whose extraction returned None is skipped
\* for good: no record is built for it, no upsert made, and the loop has
\* moved on.
C14_EntryStateMachine ==
    /\ NoRepeat(resolveCalls)
    /\ NoRepeat(extractCalls)
    /\ NoRepeat(UpsertIdxSeq)
    /\ \A j \in 1..Len(extractCalls) : InSeq(extractCalls[j], resolveCalls)
    /\ \A i \in UpsertedIdx : InSeq(i, extractCalls)
    /\ pc = "resolve" => ~InSeq(idx, resolveCalls)
    /\ pc = "extract" => InSeq(idx, resolveCalls) /\ ~InSeq(idx, extractCalls)
    /\ pc = "build" =>
         /\ InSeq(idx, extractCalls)
         /\ details # NoneRec
         /\ ~RecordBuilt
    /\ pc = "persist" =>
         /\ DetailsReturned
         /\ record # NoneRec
         /\ idx \notin UpsertedIdx
    /\ (InSeq(idx, extractCalls) /\ details = NoneRec) =>
         /\ ~RecordBuilt
         /\ pc \in {"loop", "return", "exited"}
    /\ (idx > 0 /\ visited[idx].link \in {None, ""}) =>
         /\ idx \notin TouchedByStages
         /\ pc \in {"loop", "return", "exited"}

\* the second entry went through every stage after the first was skipped at
\* extraction
C14_Witness ==
    /\ idx = 2
    /\ resolveCalls = <<1, 2>>
    /\ extractCalls = <<1, 2>>
    /\ UpsertedIdx = {2}
    /\ record # NoneRec

\* C15 (no stage exception reaches the orchestrator, the run finishes): once
\* the loop is entered (headlines fetched, client created), whatever the
\* resolver, the extractor, the summary step and the store do, the run ends
\* with fetch_and_upsert_by_topic having returned a count and no exception
\* having left a stage.
C15_AlwaysReturns ==
    ("client" \in phases) ~> (pc = "exited" /\ returned # <<>> /\ ~crashed)

\* a run in which the driver did not start, the tokenizer was unavailable
\* and the store was unreachable has returned its count
C15_Witness ==
    /\ pc = "exited"
    /\ returned = <<0>>
    /\ ~crashed
    /\ InSeq(idx, resolveCalls)
    /\ resolveRes = None
    /\ nlp = "no_tokenizer"
    /\ outcome.store = "unreachable"

\* C16 (extraction failure skips only that entry): when the download or
\* parse of the current entry failed, or its HTML failed the gate,
\* get_full_article returned None and nothing was raised, no record was
\* built and no upsert attempted for the entry, processed is unchanged (0),
\* and the loop goes on: it is at its head, or has left only because the
\* truncated list is exhausted.
C16_ExtractionFailureSkips ==
    (InSeq(idx, extractCalls) /\ (gate = NoGate \/ ~gate[1].passed)) =>
        /\ details = NoneRec
        /\ ~RecordBuilt
        /\ ~crashed
        /\ processed = 0
        /\ pc \in {"loop", "return", "exited"}
        /\ (pc # "loop" => idx = Len(Truncate(entries, limit)))
        /\ (pc = "exited" => returned = <<0>>)

\* the HTML of the first entry failed the gate and the loop is about to take
\* the second entry
C16_Witness ==
    /\ idx = 1
    /\ extractCalls = <<1>>
    /\ gate # NoGate
    /\ ~gate[1].passed
    /\ details = NoneRec
    /\ pc = "loop"
    /\ Len(Truncate(entries, limit)) = 2

\* C17 (summary generation is best-effort): when the tokenizer could not be
\* provisioned or nlp() raised, and the page was downloaded, parsed and its
\* HTML passed the gate, get_full_article still returned the tuple, with
\* news_summary None and the gated HTML; nothing was raised, and the entry is
\* built into the same record as any other entry and handed to the upsert.
C17_SummaryBestEffort ==
    (nlp \in {"no_tokenizer", "nlp_failed"} /\ gate # NoGate /\ gate[1].passed) =>
        /\ details # NoneRec
        /\ details.news_summary = None
        /\ details.news_articlehtml = gate[1].html
        /\ ~crashed
        /\ \/ pc = "build" /\ ~RecordBuilt
           \/ /\ RecordBuilt
              /\ record = BuildRecord(details, source_href, source_title)
              /\ record.news_summary = None

\* an entry whose summary generation raised was stored
C17_Witness ==
    /\ nlp = "nlp_failed"
    /\ record # NoneRec
    /\ record.news_summary = None
    /\ Len(upsertLog) > 0
    /\ upsertLog[Len(upsertLog)] = <<idx, TRUE>>

\* C18 (entries do not influence each other): the record built in the
\* current iteration carries the run's topic id, the source fields of that
\* entry of the truncated list and the document extracted for that entry's
\* own link (its address, its gated HTML, its summary outcome), whatever an
\* earlier iteration left in details and record; an iteration starts from
\* its own entry's link and source, and a later entry is only reached while
\* the count is still 0.
C18_EntryIsolation ==
    /\ RecordBuilt =>
         LET entry == Truncated[idx] IN
         /\ record # NoneRec
         /\ record.news_topicid = TopicId
         /\ record.news_source_href = entry.source_href
         /\ record.news_source_title = entry.source_title
         /\ record.news_source_logo = SourceLogo(entry.source_href)
         /\ record.news_url = final_url
         /\ record.news_url \in {entry.link, FinalOf(entry.link)}
         /\ record.news_title = "Title of " \o record.news_url
         /\ record.news_articlehtml = gate[1].html
         /\ (record.news_summary # None) = (nlp = "ok")
    /\ pc = "build" =>
         /\ details.news_url = final_url
         /\ details.news_articlehtml = gate[1].html
         /\ (details.news_summary # None) = (nlp = "ok")
    /\ pc \in {"resolve", "extract", "build", "persist"} =>
         LET entry == Truncated[idx] IN
         /\ link = entry.link
         /\ source_href = entry.source_href
         /\ source_title = entry.source_title
         /\ processed = 0

\* the second entry's record was built with its own source and document
\* after the first entry, from another source and with another document,
\* failed at the store
C18_Witness ==
    /\ idx = 2
    /\ RecordBuilt
    /\ Len(upsertLog) > 0
    /\ upsertLog[1] = <<1, FALSE>>
    /\ visited[1].source_href # visited[2].source_href
    /\ visited[1].link # visited[2].link
    /\ record # NoneRec
    /\ record.news_source_href = visited[2].source_href
    /\ record.news_url = FinalOf(visited[2].link)

SuccessCount == Cardinality({k \in 1..Len(upsertLog) : upsertLog[k][2]})

C19_CountState ==
    /\ processed \in {0, 1}
    /\ processed = SuccessCount
    /\ (pc = "return" \/ returned # <<>>) =>
         \/ /\ processed = 1
            /\ upsertLog[Len(upsertLog)] = <<idx, TRUE>>
         \/ idx = Len(Truncated)
    /\ returned # <<>> => returned = <<processed>>
    /\ returned = <<0>> =>
         /\ Len(visited) = Len(Truncated)
         /\ \A k \in 1..Len(upsertLog) : ~upsertLog[k][2]

\* C19 (count and loop exit): within a run processed never decreases and is
\* 0 or 1, it equals the number of successful upserts of the run (so at most
\* one), and the loop is left only right after a successful upsert or with
\* the truncated list exhausted; a returned count of 0 means every entry of
\* the truncated list was visited.
C19_CountAndExit ==
    [][ /\ (pc' # "main" => processed' >= processed)
        /\ C19_CountState' ]_vars

\* every persistence of a two-entry run failed and the run returned 0 after
\* visiting both
C19_Witness ==
    /\ returned = <<0>>
    /\ Len(upsertLog) = 2
    /\ Len(visited) = 2
    /\ ~upsertLog[1][2]
    /\ ~upsertLog[2][2]

\* C20 (resolver once, before the extractor, and its address is used): the
\* resolver is called at most once per entry, every entry with a link that
\* is past the resolve step has exactly one resolver call, every extractor
\* call came after the resolver call of the same entry, and the address
\* extracted from is the resolved address when the resolver returned one and
\* the original link only when it returned None.
C20_ResolveThenExtract ==
    /\ NoRepeat(resolveCalls)
    /\ \A j \in 1..Len(extractCalls) : InSeq(extractCalls[j], resolveCalls)
    /\ (idx > 0 /\ ~LinkMissing(visited[idx].link) /\ pc # "resolve") =>
         InSeq(idx, resolveCalls)
    /\ (idx > 0 /\ LinkMissing(visited[idx].link)) => ~InSeq(idx, resolveCalls)
    /\ pc \in {"extract", "build", "persist"} => InSeq(idx, resolveCalls)
    /\ InSeq(idx, resolveCalls) =>
         /\ resolveRes \in {None, FinalOf(link)}
         /\ final_url = (IF resolveRes # None THEN resolveRes ELSE link)
         /\ (final_url = link) = (resolveRes = None)
    /\ DetailsReturned => details.news_url = final_url

\* the resolver returned an address for the entry and the article was
\* extracted from it
C20_Witness ==
    /\ link = "g1"
    /\ resolveRes = FinalOf("g1")
    /\ details # NoneRec
    /\ details.news_url = FinalOf("g1")
    /\ resolveCalls = <<idx>>
    /\ extractCalls = <<idx>>

====
